---- MODULE Spec2Model ----
(***************************************************************************)
(* A model of hound's indexing subsystem: the per-repository Searcher      *)
(* (searcher package: index swap under the RWMutex, the refresh goroutine, *)
(* Update/Stop/Wait), the startup coordinator MakeAll with its found index *)
(* references, the configuration hot reload and the SIGTERM handler of     *)
(* cmds/houndd/main.go, and the update handler of the api package with its *)
(* repository selection.                                                   *)
(***************************************************************************)
EXTENDS Integers, FiniteSets, Sequences, TLC

\* ------------------------------------------------------------------ bounds
NumRepos == 2      \* repository names 1..NumRepos
NumUrls == 2       \* distinct repository urls
MaxRev == 2        \* revisions a pull can report: 1..MaxRev
MaxDirs == 3       \* idx-* directories ever allocated
NumClients == 2    \* concurrent Search requests
NumStoppers == 2   \* concurrent Stop callers
MaxReloads == 1    \* hot-reload passes
MaxPasses == 2     \* hot-reload passes when no repository polls
MaxFound == 2      \* idx-* directories a previous run has left in dbpath
MaxFaults == 1     \* failures of pull, build, open and remove in one run
NumVirtual == 1    \* virtual repository names
MaxTokens == 2     \* names in the "repos" value of a request

\* "max-concurrent-indexers" of the shipped configuration
MaxConcurrentIndexers == 2

Names == 1..NumRepos
Urls == 1..NumUrls
Revs == 1..MaxRev
Dirs == 1..MaxDirs
Clients == 1..NumClients
\* the names of virtual repositories, apart from the configured names
VNames == (NumRepos + 1)..(NumRepos + NumVirtual)
\* what a request can name: a configured name or a virtual one
Tokens == Names \cup VNames
\* the "repos" value "*"
Star == 0
\* the "repos" values a request carries: empty, "*", or a list of names
Requests == {<<>>, <<Star>>} \cup UNION {[1..k -> Tokens] : k \in 1..MaxTokens}
\* the positions of the repos parseAsRepoList can return
Legs == 1..(MaxTokens + NumRepos)
\* a configuration without hidden repositories
NoHidden == {[n \in Names |-> FALSE]}

\* ------------------------------------------------------------ data shapes
NoManifest == [url |-> 0, rev |-> 0]
\* *index.Index as the searcher sees it: the IndexRef (dir, url, rev) it was
\* opened from; dir = 0 is the nil pointer.
NoIdx == [dir |-> 0, url |-> 0, rev |-> 0]
MkIdx(d, u, r) == [dir |-> d, url |-> u, rev |-> r]
\* *config.Repo: the fields the searcher reads, and Revision, which it writes.
NoRepo == [url |-> 0, poll |-> FALSE, push |-> FALSE, revision |-> 0]
MkRepo(u, po, pu) == [url |-> u, poll |-> po, push |-> pu, revision |-> 0]
PullErr == 0

VARIABLES
    disk,               \* dbpath: idx-<d> -> its manifest (url, rev), or NoManifest when absent
    nextDir,            \* the next directory nextIndexDir hands out
    pc,                 \* per searcher: the position of its refresh goroutine
    idx,                \* Searcher.idx
    repo,               \* Searcher.Repo
    vrepos,             \* Searcher.vrepos: the revision of the checkout setVRepos read last
    marked,             \* per searcher: the dirs of its indexes with Hidden and FileRepo set
    rev,                \* the goroutine's current revision (rev of newSearcher)
    updateCh,           \* Searcher.updateCh, capacity 1: number of queued events
    shutdownCh,         \* Searcher.shutdownCh, capacity 1
    shutdownRequested,  \* Searcher.shutdownRequested
    doneCh,             \* number of close(doneCh) executed
    readers,            \* Searcher.lck: the Search calls holding RLock
    writer,             \* Searcher.lck: Lock held
    newRev,             \* updateAndReindex: newRev
    newIdx,             \* updateAndReindex: idx
    oldIdx,             \* swapIndexes: oldIdx
    swapErr,            \* swapIndexes: the error it returns
    lim,                \* per limiter: tokens taken
    indexers,           \* cfg.MaxConcurrentIndexers: the capacity of each limiter
    sigterm,            \* main's shutdownCh: a SIGTERM has been delivered
    spc,                \* the position of handleShutdown's goroutine
    hname,              \* handleShutdown: the searcher s of the running iteration
    hInst,              \* handleShutdown: which Searcher object of that name s is
    hAll,               \* handleShutdown: the map entries present when the range began
    hDone,              \* handleShutdown: the names the running range has produced
    hidden,             \* per name: Repo.IsHidden() of its descriptor
    vnames,             \* per name: the keys of Searcher.vrepos (GetVRepos)
    apc,                \* the position of the /api/v1/update handler
    areq,               \* the request's "repos" value, split at the commas
    arepos,             \* parseAsRepoList: repos
    avrepos,            \* parseAsRepoList: vrepos
    ai,                 \* the handler's loop: repos produced so far
    astatus,            \* the status of the response written, 0 before it
    aupd,               \* history: the names whose Update() returned true
    qpc,                \* the position of a search request in searchAll
    qrepos,             \* searchAll: repos, as parseAsRepoList selected them
    qi,                 \* searchAll: repos the launch loop has passed
    qan,                \* searchAll: an, the tasks launched
    qgot,               \* searchAll: i of the collect loop, the results received
    qch,                \* searchAll: ch, the results sent and not yet received
    qret,               \* what searchAll returned: "none", "ok" or "err"
    lpc,                \* per position in repos: the position of its search task
    lerr,               \* per position in repos: the task's Search returned an error
    crashed,            \* a panic has left a goroutine: the process is gone
    limOf,              \* per searcher: the limiter its goroutine was given
    inst,               \* per name: the Searcher objects newSearcher has made for it
    gSearchers,         \* api.gSearchers: names in the published map
    file,               \* the configuration file: name -> descriptor
    fileChanged,        \* scanChanges: the file's mtime is after startTime
    cfg,                \* the live configuration cfg.Repos
    cfgn,               \* checkConfigChange: cfgn.Repos
    deleted,            \* checkConfigChange: deleted
    refs,               \* foundRefs.refs of the Make or MakeAll in progress
    claimed,            \* foundRefs.claimed
    tpc,                \* per name: position of its newSearcher call
    tRev,               \* newSearcher: rev
    tDir,               \* newSearcher: idxDir
    tErr,               \* newSearcher: it returned an error
    resultCh,           \* MakeAll: resultCh, the names whose result is queued
    mpc,                \* position of main
    searchers,          \* Make and MakeAll: the searchers map being filled
    errs,               \* Make and MakeAll: the errs map of the last call
    begun,              \* Make and MakeAll: searchers that were sent begin
    wpc,                \* position of the configuration watcher's callback
    wname,              \* checkConfigChange: the searcher being stopped
    reloads,            \* hot-reload passes started
    kept,               \* history: the searchers the last pass found unchanged
    cpc,                \* per Search call: its position
    cAtLock,            \* per Search call: the live index when RLock was granted
    cIdx,               \* per Search call: the index s.idx.Search runs on
    stopping,           \* per searcher: Stop callers between the send and the flag
    lastPull,           \* history: revision of the last successful PullOrClone
    lastBuilt,          \* history: revision of the last index built and opened
    lockWaited,         \* history: the pending swap found Search calls holding RLock
    stopCalls,          \* history: Stop calls begun (saturates at 2)
    updRet,             \* history: what the last Update returned
    updCalls,           \* history: Update calls since the goroutine last woke (saturates at 2)
    updQueued,          \* history: events Update queued since the goroutine last woke
    exitBy,             \* history: why the goroutine returned
    faults              \* history: pulls, builds, opens and removes that have failed

loopVars == <<pc, idx, repo, vrepos, marked, rev>>
chanVars == <<updateCh, shutdownCh, shutdownRequested, doneCh>>
lockVars == <<readers, writer>>
cycleVars == <<newRev, newIdx, oldIdx, swapErr>>
diskVars == <<disk, nextDir>>
searcherVars == <<loopVars, chanVars, lockVars, cycleVars>>
obsVars == <<lastPull, lastBuilt, lockWaited, stopCalls, updRet, updCalls,
             updQueued, exitBy>>
histVars == <<obsVars, faults>>
callerVars == <<cpc, cAtLock, cIdx, stopping>>
taskVars == <<tpc, tRev, tDir, tErr>>
makeVars == <<refs, claimed, searchers, errs, begun, resultCh>>
confVars == <<file, fileChanged, cfg, cfgn, deleted>>
sdVars == <<sigterm, spc, hname, hInst, hAll, hDone>>
apiVars == <<hidden, vnames, apc, areq, arepos, avrepos, ai, astatus, aupd>>
srchVars == <<qpc, qrepos, qi, qan, qgot, qch, qret, lpc, lerr, crashed>>
mainVars == <<apiVars, srchVars, indexers, limOf, inst, kept, gSearchers, taskVars, makeVars, confVars, mpc, wpc,
              wname, reloads>>
coordVars == <<sdVars, mainVars>>
vars == <<diskVars, searcherVars, lim, coordVars, callerVars, histVars>>

Sat2(k) == IF k >= 2 THEN 2 ELSE k + 1

\* one more operation fails
Fault ==
    /\ faults < MaxFaults
    /\ faults' = faults + 1

\* ------------------------------------------------------------ config.Repo
PollUpdatesEnabled(r) == r.poll
\* a descriptor that always allows push updates
AlwaysPush(r) == TRUE

PushUpdatesEnabled(r) == r.push

\* ---------------------------------------------------------------- limiter
\* limiter.Acquire: l <- true on a channel of capacity cfg.MaxConcurrentIndexers
Acquire(l) ==
    /\ lim[l] < indexers
    /\ lim' = [lim EXCEPT ![l] = @ + 1]

\* limiter.Release: <-l
\* a Release that leaves the token in the channel
KeepToken(l) ==
    /\ lim[l] > 0
    /\ lim' = lim

Release(l) ==
    /\ lim[l] > 0
    /\ lim' = [lim EXCEPT ![l] = @ - 1]

\* ------------------------------------------------------------ index dirs
\* index.Index.Destroy when it succeeds: the directory is removed
DestroyOk(i) == [disk EXCEPT ![i.dir] = NoManifest]

Usable(i) == i.dir # 0 /\ disk[i.dir] # NoManifest

\* ------------------------------------------------------------ Searcher.lck
RLockGrantedAlways(n) == n \in Names

\* sync.RWMutex: RLock is granted unless Lock is held or has been requested
RLockGranted(n) == ~writer[n] /\ pc[n] # "swaplock"

LockGrantedNoWait(n) == ~writer[n]

\* sync.RWMutex: Lock is granted once every reader has released
LockGranted(n) == ~writer[n] /\ readers[n] = {}

\* ---------------------------------------------------------------- Search
\* Searcher.Search: s.lck.RLock()
SearchRLock(c, n) ==
    /\ cpc[c] = "idle"
    /\ n \in gSearchers
    /\ RLockGranted(n)
    /\ readers' = [readers EXCEPT ![n] = @ \cup {c}]
    /\ cpc' = [cpc EXCEPT ![c] = "rlocked"]
    /\ cAtLock' = [cAtLock EXCEPT ![c] = idx[n]]
    /\ UNCHANGED <<diskVars, loopVars, chanVars, writer, cycleVars, lim,
                   coordVars, cIdx, stopping, histVars>>

\* Searcher.Search: s.idx.Search(pat, opt, vrepos) loads s.idx and runs on it
SearchIdx(c, n) ==
    /\ cpc[c] = "rlocked"
    /\ c \in readers[n]
    /\ cIdx' = [cIdx EXCEPT ![c] = idx[n]]
    /\ cpc' = [cpc EXCEPT ![c] = "searching"]
    /\ UNCHANGED <<diskVars, searcherVars, lim, coordVars, cAtLock, stopping,
                   histVars>>

\* Searcher.Search: the deferred s.lck.RUnlock()
SearchRUnlock(c, n) ==
    /\ cpc[c] = "searching"
    /\ c \in readers[n]
    /\ readers' = [readers EXCEPT ![n] = @ \ {c}]
    /\ cpc' = [cpc EXCEPT ![c] = "idle"]
    /\ cAtLock' = [cAtLock EXCEPT ![c] = NoIdx]
    /\ cIdx' = [cIdx EXCEPT ![c] = NoIdx]
    /\ UNCHANGED <<diskVars, loopVars, chanVars, writer, cycleVars, lim,
                   coordVars, stopping, histVars>>

\* ---------------------------------------------------------------- Update
UpdateAlwaysQueues(n) ==
    /\ n \in gSearchers
    /\ updCalls' = [updCalls EXCEPT ![n] = Sat2(@)]
    /\ IF ~PushUpdatesEnabled(repo[n])
          THEN /\ updRet' = [updRet EXCEPT ![n] = "false"]
               /\ UNCHANGED <<updateCh, updQueued>>
          ELSE /\ updRet' = [updRet EXCEPT ![n] = "true"]
               /\ IF updateCh[n] < 2
                     THEN /\ updateCh' = [updateCh EXCEPT ![n] = @ + 1]
                          /\ updQueued' = [updQueued EXCEPT ![n] = @ + 1]
                     ELSE UNCHANGED <<updateCh, updQueued>>
    /\ UNCHANGED <<diskVars, loopVars, shutdownCh, shutdownRequested, doneCh,
                   lockVars, cycleVars, lim, coordVars, callerVars, lastPull,
                   lastBuilt, lockWaited, stopCalls, exitBy, faults>>

\* Searcher.Update: false when push updates are off, else a non-blocking
\* send on updateCh that drops the event when one is already queued
Update(n) ==
    /\ n \in gSearchers
    /\ updCalls' = [updCalls EXCEPT ![n] = Sat2(@)]
    /\ IF ~PushUpdatesEnabled(repo[n])
          THEN /\ updRet' = [updRet EXCEPT ![n] = "false"]
               /\ UNCHANGED <<updateCh, updQueued>>
          ELSE /\ updRet' = [updRet EXCEPT ![n] = "true"]
               /\ IF updateCh[n] = 0
                     THEN /\ updateCh' = [updateCh EXCEPT ![n] = 1]
                          /\ updQueued' = [updQueued EXCEPT ![n] = @ + 1]
                     ELSE UNCHANGED <<updateCh, updQueued>>
    /\ UNCHANGED <<diskVars, loopVars, shutdownCh, shutdownRequested, doneCh,
                   lockVars, cycleVars, lim, coordVars, callerVars, lastPull,
                   lastBuilt, lockWaited, stopCalls, exitBy, faults>>

\* ------------------------------------------------------------------ Stop
StopSelectQueuesTwo(n) ==
    /\ stopping[n] < NumStoppers
    /\ n \in gSearchers
    /\ stopCalls' = [stopCalls EXCEPT ![n] = Sat2(@)]
    /\ IF shutdownCh[n] < 2
          THEN /\ shutdownCh' = [shutdownCh EXCEPT ![n] = @ + 1]
               /\ stopping' = [stopping EXCEPT ![n] = @ + 1]
          ELSE UNCHANGED <<shutdownCh, stopping>>
    /\ UNCHANGED <<diskVars, loopVars, updateCh, shutdownRequested, doneCh,
                   lockVars, cycleVars, lim, coordVars, cpc, cAtLock, cIdx,
                   lastPull, lastBuilt, lockWaited, updRet, updCalls,
                   updQueued, exitBy, faults>>

\* Searcher.Stop, the select: a non-blocking send on shutdownCh. At most
\* NumStoppers callers are inside Stop at once.
StopSelect(n) ==
    /\ stopping[n] < NumStoppers
    /\ n \in gSearchers
    /\ stopCalls' = [stopCalls EXCEPT ![n] = Sat2(@)]
    /\ IF shutdownCh[n] = 0
          THEN /\ shutdownCh' = [shutdownCh EXCEPT ![n] = 1]
               /\ stopping' = [stopping EXCEPT ![n] = @ + 1]
          ELSE UNCHANGED <<shutdownCh, stopping>>
    /\ UNCHANGED <<diskVars, loopVars, updateCh, shutdownRequested, doneCh,
                   lockVars, cycleVars, lim, coordVars, cpc, cAtLock, cIdx,
                   lastPull, lastBuilt, lockWaited, updRet, updCalls,
                   updQueued, exitBy, faults>>

\* Searcher.Stop, the send's case body: s.shutdownRequested = true
StopSetFlag(n) ==
    /\ stopping[n] > 0
    /\ shutdownRequested' = [shutdownRequested EXCEPT ![n] = TRUE]
    /\ stopping' = [stopping EXCEPT ![n] = @ - 1]
    /\ UNCHANGED <<diskVars, loopVars, updateCh, shutdownCh, doneCh, lockVars,
                   cycleVars, lim, coordVars, cpc, cAtLock, cIdx, histVars>>

\* Searcher.completeShutdown: close(s.doneCh)
completeShutdown(n) == doneCh' = [doneCh EXCEPT ![n] = @ + 1]

\* Searcher.Wait returns: <-s.doneCh on a closed channel
WaitReturns(n) == doneCh[n] > 0

\* ------------------------------------------------- the refresh goroutine
\* newSearcher's goroutine, <-s.updateCh: held until begin, then done at once
\* when neither polling nor pushing is enabled
LoopHeld(n) ==
    /\ pc[n] = "held"
    /\ updateCh[n] = 1
    /\ updateCh' = [updateCh EXCEPT ![n] = 0]
    /\ IF ~PollUpdatesEnabled(repo[n]) /\ ~PushUpdatesEnabled(repo[n])
          THEN /\ completeShutdown(n)
               /\ pc' = [pc EXCEPT ![n] = "exited"]
               /\ exitBy' = [exitBy EXCEPT ![n] = "noupdates"]
          ELSE /\ pc' = [pc EXCEPT ![n] = "wait"]
               /\ UNCHANGED <<doneCh, exitBy>>
    /\ UNCHANGED <<diskVars, idx, repo, vrepos, marked, rev, shutdownCh, shutdownRequested,
                   lockVars, cycleVars, lim, coordVars, callerVars, lastPull,
                   lastBuilt, lockWaited, stopCalls, updRet, updCalls,
                   updQueued, faults>>

\* Searcher.waitForUpdate: select over updateCh, the poll timer (only armed
\* when polling is enabled) and shutdownCh
waitForUpdate(n) ==
    /\ pc[n] = "wait"
    /\ \/ /\ updateCh[n] = 1
          /\ updateCh' = [updateCh EXCEPT ![n] = 0]
          /\ UNCHANGED shutdownCh
       \/ /\ PollUpdatesEnabled(repo[n])
          /\ UNCHANGED <<updateCh, shutdownCh>>
       \/ /\ shutdownCh[n] = 1
          /\ shutdownCh' = [shutdownCh EXCEPT ![n] = 0]
          /\ UNCHANGED updateCh
    /\ pc' = [pc EXCEPT ![n] = "check"]
    /\ updCalls' = [updCalls EXCEPT ![n] = 0]
    /\ updQueued' = [updQueued EXCEPT ![n] = 0]
    /\ UNCHANGED <<diskVars, idx, repo, vrepos, marked, rev, shutdownRequested, doneCh,
                   lockVars, cycleVars, lim, coordVars, callerVars, lastPull,
                   lastBuilt, lockWaited, stopCalls, updRet, exitBy, faults>>

LoopCheckDestroys(n) ==
    /\ pc[n] = "check"
    /\ IF shutdownRequested[n]
          THEN /\ doneCh' = [doneCh EXCEPT ![n] = @ + 1]
               /\ disk' = DestroyOk(idx[n])
               /\ idx' = [idx EXCEPT ![n] = NoIdx]
               /\ pc' = [pc EXCEPT ![n] = "exited"]
               /\ exitBy' = [exitBy EXCEPT ![n] = "shutdown"]
          ELSE /\ pc' = [pc EXCEPT ![n] = "acquire"]
               /\ UNCHANGED <<doneCh, exitBy, disk, idx>>
    /\ UNCHANGED <<nextDir, repo, vrepos, marked, rev, updateCh, shutdownCh,
                   shutdownRequested, lockVars, cycleVars, lim, coordVars,
                   callerVars, lastPull, lastBuilt, lockWaited, stopCalls,
                   updRet, updCalls, updQueued, faults>>

\* the goroutine's test of s.shutdownRequested after waitForUpdate
LoopCheck(n) ==
    /\ pc[n] = "check"
    /\ IF shutdownRequested[n]
          THEN /\ completeShutdown(n)
               /\ pc' = [pc EXCEPT ![n] = "exited"]
               /\ exitBy' = [exitBy EXCEPT ![n] = "shutdown"]
          ELSE /\ pc' = [pc EXCEPT ![n] = "acquire"]
               /\ UNCHANGED <<doneCh, exitBy>>
    /\ UNCHANGED <<diskVars, idx, repo, vrepos, marked, rev, updateCh, shutdownCh,
                   shutdownRequested, lockVars, cycleVars, lim, coordVars,
                   callerVars, lastPull, lastBuilt, lockWaited, stopCalls,
                   updRet, updCalls, updQueued, faults>>

\* updateAndReindex: lim.Acquire()
uarAcquire(n) ==
    /\ pc[n] = "acquire"
    /\ Acquire(limOf[n])
    /\ pc' = [pc EXCEPT ![n] = "pull"]
    /\ UNCHANGED <<diskVars, idx, repo, vrepos, marked, rev, chanVars, lockVars, cycleVars,
                   coordVars, callerVars, histVars>>

\* an updateAndReindex that rebuilds whenever the pull succeeds
PullFailed(r, cur) == r = PullErr

\* updateAndReindex: err != nil, or newRev == rev
NothingNew(r, cur) == r = PullErr \/ r = cur

\* updateAndReindex: wd.PullOrClone; an error or an unchanged revision ends
\* the cycle with (rev, false)
uarPull(n) ==
    /\ pc[n] = "pull"
    /\ \E r \in Revs \cup {PullErr} :
         /\ (r # PullErr /\ r # rev[n]) => nextDir <= MaxDirs
         /\ lastPull' = [lastPull EXCEPT ![n] = IF r = PullErr THEN @ ELSE r]
         /\ IF r = PullErr THEN Fault ELSE UNCHANGED faults
         /\ IF NothingNew(r, rev[n])
               THEN /\ pc' = [pc EXCEPT ![n] = "release"]
                    /\ UNCHANGED newRev
               ELSE /\ pc' = [pc EXCEPT ![n] = "build"]
                    /\ newRev' = [newRev EXCEPT ![n] = r]
    /\ UNCHANGED <<diskVars, idx, repo, vrepos, marked, rev, chanVars, lockVars, newIdx,
                   oldIdx, swapErr, lim, coordVars, callerVars, lastBuilt,
                   lockWaited, stopCalls, updRet, updCalls, updQueued, exitBy>>

\* updateAndReindex: buildAndOpenIndex on nextIndexDir(dbpath). index.Build
\* can fail, and so can Open of the directory Build has written.
uarBuild(n) ==
    /\ pc[n] = "build"
    /\ nextDir <= MaxDirs
    /\ nextDir' = nextDir + 1
    /\ \/ /\ disk' = [disk EXCEPT ![nextDir] = [url |-> repo[n].url, rev |-> newRev[n]]]
          /\ newIdx' = [newIdx EXCEPT ![n] = MkIdx(nextDir, repo[n].url, newRev[n])]
          /\ lastBuilt' = [lastBuilt EXCEPT ![n] = newRev[n]]
          /\ pc' = [pc EXCEPT ![n] = "setrev"]
          /\ UNCHANGED <<newRev, faults>>
       \/ /\ UNCHANGED <<disk, newIdx, lastBuilt>>
          /\ newRev' = [newRev EXCEPT ![n] = 0]
          /\ Fault
          /\ pc' = [pc EXCEPT ![n] = "release"]
       \/ /\ disk' = [disk EXCEPT ![nextDir] = [url |-> repo[n].url, rev |-> newRev[n]]]
          /\ UNCHANGED <<newIdx, lastBuilt>>
          /\ newRev' = [newRev EXCEPT ![n] = 0]
          /\ Fault
          /\ pc' = [pc EXCEPT ![n] = "release"]
    /\ UNCHANGED <<idx, repo, vrepos, marked, rev, chanVars, lockVars, oldIdx, swapErr, lim,
                   coordVars, callerVars, lastPull, lockWaited, stopCalls,
                   updRet, updCalls, updQueued, exitBy>>

\* updateAndReindex: repo.Revision = newRev; setVRepos, which for a hidden
\* repository sets Hidden and FileRepo on s.idx; then swapIndexes
\* calls s.lck.Lock()
uarSetRev(n) ==
    /\ pc[n] = "setrev"
    /\ repo' = [repo EXCEPT ![n].revision = newRev[n]]
    /\ vrepos' = [vrepos EXCEPT ![n] = newRev[n]]
    /\ marked' = [marked EXCEPT ![n] = IF hidden[n] THEN @ \cup {idx[n].dir} ELSE @]
    /\ pc' = [pc EXCEPT ![n] = "swaplock"]
    /\ lockWaited' = [lockWaited EXCEPT ![n] = readers[n] # {}]
    /\ UNCHANGED <<diskVars, idx, rev, chanVars, lockVars, cycleVars, lim,
                   coordVars, callerVars, lastPull, lastBuilt, stopCalls,
                   updRet, updCalls, updQueued, exitBy, faults>>

\* swapIndexes: s.lck.Lock() is granted
swapLock(n) ==
    /\ pc[n] = "swaplock"
    /\ LockGranted(n)
    /\ writer' = [writer EXCEPT ![n] = TRUE]
    /\ pc' = [pc EXCEPT ![n] = "store"]
    /\ UNCHANGED <<diskVars, idx, repo, vrepos, marked, rev, chanVars, readers, cycleVars,
                   lim, coordVars, callerVars, histVars>>

swapStoreKeepsOld(n) ==
    /\ pc[n] = "store"
    /\ oldIdx' = [oldIdx EXCEPT ![n] = newIdx[n]]
    /\ pc' = [pc EXCEPT ![n] = "destroy"]
    /\ UNCHANGED <<diskVars, idx, repo, vrepos, marked, rev, chanVars, lockVars, newRev,
                   newIdx, swapErr, lim, coordVars, callerVars, histVars>>

\* swapIndexes: oldIdx := s.idx; s.idx = idx
swapStore(n) ==
    /\ pc[n] = "store"
    /\ oldIdx' = [oldIdx EXCEPT ![n] = idx[n]]
    /\ idx' = [idx EXCEPT ![n] = newIdx[n]]
    /\ pc' = [pc EXCEPT ![n] = "destroy"]
    /\ UNCHANGED <<diskVars, repo, vrepos, marked, rev, chanVars, lockVars, newRev, newIdx,
                   swapErr, lim, coordVars, callerVars, histVars>>

\* swapIndexes: return oldIdx.Destroy()
swapDestroy(n) ==
    /\ pc[n] = "destroy"
    /\ \/ /\ disk' = DestroyOk(oldIdx[n])
          /\ swapErr' = [swapErr EXCEPT ![n] = FALSE]
          /\ UNCHANGED faults
       \/ /\ UNCHANGED disk
          /\ swapErr' = [swapErr EXCEPT ![n] = TRUE]
          /\ Fault
    /\ pc' = [pc EXCEPT ![n] = "unlock"]
    /\ UNCHANGED <<nextDir, idx, repo, vrepos, marked, rev, chanVars, lockVars, newRev,
                   newIdx, oldIdx, lim, coordVars, callerVars, lastPull,
                   lastBuilt, lockWaited, stopCalls, updRet, updCalls,
                   updQueued, exitBy>>

\* swapIndexes: the deferred s.lck.Unlock(), and the caller's test of err
swapUnlock(n) ==
    /\ pc[n] = "unlock"
    /\ writer' = [writer EXCEPT ![n] = FALSE]
    /\ oldIdx' = [oldIdx EXCEPT ![n] = NoIdx]
    /\ swapErr' = [swapErr EXCEPT ![n] = FALSE]
    /\ pc' = [pc EXCEPT ![n] = IF swapErr[n] THEN "cleanup" ELSE "release"]
    /\ UNCHANGED <<diskVars, idx, repo, vrepos, marked, rev, chanVars, readers, newRev,
                   newIdx, lim, coordVars, callerVars, histVars>>

\* updateAndReindex after a failed swap: idx.Destroy() on the new index,
\* then (rev, false)
uarCleanup(n) ==
    /\ pc[n] = "cleanup"
    /\ \/ /\ disk' = DestroyOk(newIdx[n])
          /\ UNCHANGED faults
       \/ /\ UNCHANGED disk
          /\ Fault
    /\ UNCHANGED obsVars
    /\ newRev' = [newRev EXCEPT ![n] = 0]
    /\ pc' = [pc EXCEPT ![n] = "release"]
    /\ UNCHANGED <<nextDir, idx, repo, vrepos, marked, rev, chanVars, lockVars, newIdx,
                   oldIdx, swapErr, lim, coordVars, callerVars>>

\* updateAndReindex returns: the deferred lim.Release(); on (newRev, true)
\* the goroutine sets rev = newRev and loops
uarRelease(n) ==
    /\ pc[n] = "release"
    /\ Release(limOf[n])
    /\ rev' = [rev EXCEPT ![n] = IF newRev[n] # 0 THEN newRev[n] ELSE @]
    /\ newRev' = [newRev EXCEPT ![n] = 0]
    /\ newIdx' = [newIdx EXCEPT ![n] = NoIdx]
    /\ pc' = [pc EXCEPT ![n] = "wait"]
    /\ lockWaited' = [lockWaited EXCEPT ![n] = FALSE]
    /\ UNCHANGED <<diskVars, idx, repo, vrepos, marked, chanVars, lockVars, oldIdx, swapErr,
                   coordVars, callerVars, lastPull, lastBuilt, stopCalls,
                   updRet, updCalls, updQueued, exitBy, faults>>

updateAndReindex(n) ==
    \/ uarAcquire(n)
    \/ uarPull(n)
    \/ uarBuild(n)
    \/ uarSetRev(n)
    \/ uarCleanup(n)
    \/ uarRelease(n)

swapIndexes(n) ==
    \/ swapLock(n)
    \/ swapStore(n)
    \/ swapDestroy(n)
    \/ swapUnlock(n)

Loop(n) ==
    \/ LoopHeld(n)
    \/ waitForUpdate(n)
    \/ LoopCheck(n)
    \/ updateAndReindex(n)
    \/ swapIndexes(n)

\* --------------------------------------------- one searcher, after startup
\* The state MakeAll leaves for one repository: the index built, the begin
\* event sent, the map published. Every update policy is a start state.
InitSearcher ==
    /\ disk = [d \in Dirs |-> IF d = 1 THEN [url |-> 1, rev |-> 1] ELSE NoManifest]
    /\ nextDir = 2
    /\ pc = [n \in Names |-> IF n = 1 THEN "held" ELSE "none"]
    /\ idx = [n \in Names |-> IF n = 1 THEN MkIdx(1, 1, 1) ELSE NoIdx]
    /\ \E po \in BOOLEAN, pu \in BOOLEAN :
         repo = [n \in Names |-> IF n = 1
                                    THEN [MkRepo(1, po, pu) EXCEPT !.revision = 1]
                                    ELSE NoRepo]
    /\ vrepos = [n \in Names |-> IF n = 1 THEN 1 ELSE 0]
    /\ marked = [n \in Names |-> {}]
    /\ rev = [n \in Names |-> IF n = 1 THEN 1 ELSE 0]
    /\ updateCh = [n \in Names |-> IF n = 1 THEN 1 ELSE 0]
    /\ shutdownCh = [n \in Names |-> 0]
    /\ shutdownRequested = [n \in Names |-> FALSE]
    /\ doneCh = [n \in Names |-> 0]
    /\ readers = [n \in Names |-> {}]
    /\ writer = [n \in Names |-> FALSE]
    /\ newRev = [n \in Names |-> 0]
    /\ newIdx = [n \in Names |-> NoIdx]
    /\ oldIdx = [n \in Names |-> NoIdx]
    /\ swapErr = [n \in Names |-> FALSE]
    /\ lim = [l \in 0..MaxPasses |-> 0]
    /\ indexers = MaxConcurrentIndexers
    /\ hidden = [n \in Names |-> FALSE]
    /\ vnames = [n \in Names |-> {}]
    /\ apc = "idle"
    /\ areq = <<>>
    /\ arepos = <<>>
    /\ avrepos = <<>>
    /\ ai = 0
    /\ astatus = 0
    /\ aupd = {}
    /\ qpc = "idle"
    /\ qrepos = <<>>
    /\ qi = 0
    /\ qan = 0
    /\ qgot = 0
    /\ qch = <<>>
    /\ qret = "none"
    /\ lpc = [i \in Legs |-> "none"]
    /\ lerr = [i \in Legs |-> FALSE]
    /\ crashed = FALSE
    /\ sigterm = FALSE
    /\ spc = "idle"
    /\ hname = 0
    /\ hInst = 0
    /\ hAll = {}
    /\ hDone = {}
    /\ limOf = [n \in Names |-> 0]
    /\ inst = [n \in Names |-> IF n = 1 THEN 1 ELSE 0]
    /\ kept = {}
    /\ gSearchers = {1}
    /\ cpc = [c \in Clients |-> "idle"]
    /\ cAtLock = [c \in Clients |-> NoIdx]
    /\ cIdx = [c \in Clients |-> NoIdx]
    /\ stopping = [n \in Names |-> 0]
    /\ lastPull = [n \in Names |-> IF n = 1 THEN 1 ELSE 0]
    /\ lastBuilt = [n \in Names |-> IF n = 1 THEN 1 ELSE 0]
    /\ lockWaited = [n \in Names |-> FALSE]
    /\ stopCalls = [n \in Names |-> 0]
    /\ updRet = [n \in Names |-> "none"]
    /\ updCalls = [n \in Names |-> 0]
    /\ updQueued = [n \in Names |-> 0]
    /\ exitBy = [n \in Names |-> "none"]
    /\ faults = 0
    /\ file = [n \in Names |-> IF n = 1 THEN [repo[1] EXCEPT !.revision = 0] ELSE NoRepo]
    /\ fileChanged = FALSE
    /\ cfg = file
    /\ cfgn = [n \in Names |-> NoRepo]
    /\ deleted = {}
    /\ refs = [d \in Dirs |-> NoManifest]
    /\ claimed = {}
    /\ tpc = [n \in Names |-> IF n = 1 THEN "done" ELSE "none"]
    /\ tRev = [n \in Names |-> 0]
    /\ tDir = [n \in Names |-> 0]
    /\ tErr = [n \in Names |-> FALSE]
    /\ resultCh = {}
    /\ mpc = "serve"
    /\ searchers = {}
    /\ errs = {}
    /\ begun = {}
    /\ wpc = "scan"
    /\ wname = 0
    /\ reloads = 0

Search(c, n) ==
    \/ SearchRLock(c, n)
    \/ SearchIdx(c, n)
    \/ SearchRUnlock(c, n)

Stop(n) ==
    \/ StopSelect(n)
    \/ StopSetFlag(n)

\* Searches against an index that the refresh goroutine swaps
NextSwap ==
    \/ Loop(1)
    \/ \E c \in Clients : Search(c, 1)

SpecSwap == InitSearcher /\ [][NextSwap]_vars

\* The refresh goroutine with its Update and Stop callers
NextLife ==
    \/ Loop(1)
    \/ Update(1)
    \/ Stop(1)

SpecLife == InitSearcher /\ [][NextLife]_vars

\* ------------------------------------------------------------- foundRefs
\* config.Repo.ToJsonString: the descriptor as the configuration file gives it
ToJsonString(r) == <<r.url, r.poll, r.push>>

InConfig(c) == {n \in Names : c[n] # NoRepo}

\* findExistingRefs: the ref read from every idx-* directory of dbpath
findExistingRefs == [d \in Dirs |-> disk[d]]

\* foundRefs.find: the first ref with this url and rev, 0 for nil. It does
\* not look at claimed.
find(u, r) ==
    LET M == {d \in Dirs : refs[d] # NoManifest /\ refs[d].url = u /\ refs[d].rev = r}
    IN  IF M = {} THEN 0 ELSE CHOOSE d \in M : \A e \in M : d <= e

\* foundRefs.claim
claim(ref) == claimed' = claimed \cup {ref}

Unclaimed == {d \in Dirs : refs[d] # NoManifest /\ d \notin claimed}

\* ------------------------------------------------------------ newSearcher
\* the repo and the limiter newSearcher is called with: MakeAll passes
\* cfg.Repos and its limiter, Make passes cfgn.Repos and a limiter of its own
TaskRepo(n) == IF mpc = "collect" THEN cfg[n] ELSE cfgn[n]
TaskLim == IF mpc = "collect" THEN 0 ELSE reloads

\* newSearcher: wd.PullOrClone, then refs.find and either refs.claim or
\* nextIndexDir
nsPull(n) ==
    /\ tpc[n] = "pull"
    /\ \E r \in Revs \cup {PullErr} :
         LET ref == find(TaskRepo(n).url, r) IN
         /\ (r # PullErr /\ ref = 0) => nextDir <= MaxDirs
         /\ IF r = PullErr
               THEN /\ tErr' = [tErr EXCEPT ![n] = TRUE]
                    /\ tpc' = [tpc EXCEPT ![n] = "post"]
                    /\ Fault
                    /\ UNCHANGED <<tRev, tDir, nextDir, claimed>>
               ELSE /\ tRev' = [tRev EXCEPT ![n] = r]
                    /\ tpc' = [tpc EXCEPT ![n] = "build"]
                    /\ IF ref = 0
                          THEN /\ tDir' = [tDir EXCEPT ![n] = nextDir]
                               /\ nextDir' = nextDir + 1
                               /\ UNCHANGED claimed
                          ELSE /\ tDir' = [tDir EXCEPT ![n] = ref]
                               /\ claim(ref)
                               /\ UNCHANGED nextDir
                    /\ UNCHANGED <<tErr, faults>>
    /\ UNCHANGED <<disk, searcherVars, lim, sdVars, srchVars, apiVars, indexers, limOf, inst, kept, gSearchers, refs, searchers,
                   errs, begun, resultCh, confVars, mpc, wpc, wname, reloads,
                   callerVars, obsVars>>

\* newSearcher: the Searcher it returns, its refresh goroutine held on
\* updateCh until begin
NewSearcher(n, i, rp, r) ==
    /\ pc' = [pc EXCEPT ![n] = IF i = NoIdx THEN "none" ELSE "held"]
    /\ idx' = [idx EXCEPT ![n] = i]
    /\ repo' = [repo EXCEPT ![n] = rp]
    /\ vrepos' = [vrepos EXCEPT ![n] = r]
    /\ marked' = [marked EXCEPT ![n] = IF hidden[n] /\ i # NoIdx THEN {i.dir} ELSE {}]
    /\ rev' = [rev EXCEPT ![n] = r]
    /\ updateCh' = [updateCh EXCEPT ![n] = 0]
    /\ shutdownCh' = [shutdownCh EXCEPT ![n] = 0]
    /\ shutdownRequested' = [shutdownRequested EXCEPT ![n] = FALSE]
    /\ doneCh' = [doneCh EXCEPT ![n] = 0]
    /\ readers' = [readers EXCEPT ![n] = {}]
    /\ writer' = [writer EXCEPT ![n] = FALSE]
    /\ newRev' = [newRev EXCEPT ![n] = 0]
    /\ newIdx' = [newIdx EXCEPT ![n] = NoIdx]
    /\ oldIdx' = [oldIdx EXCEPT ![n] = NoIdx]
    /\ swapErr' = [swapErr EXCEPT ![n] = FALSE]
    /\ limOf' = [limOf EXCEPT ![n] = IF i = NoIdx THEN 0 ELSE TaskLim]
    /\ inst' = [inst EXCEPT ![n] = IF i = NoIdx THEN @ ELSE @ + 1]
    /\ UNCHANGED <<kept, indexers, sdVars, srchVars, apiVars>>
    /\ stopping' = [stopping EXCEPT ![n] = 0]
    /\ lastPull' = [lastPull EXCEPT ![n] = r]
    /\ lastBuilt' = [lastBuilt EXCEPT ![n] = i.rev]
    /\ lockWaited' = [lockWaited EXCEPT ![n] = FALSE]
    /\ stopCalls' = [stopCalls EXCEPT ![n] = 0]
    /\ updRet' = [updRet EXCEPT ![n] = "none"]
    /\ updCalls' = [updCalls EXCEPT ![n] = 0]
    /\ updQueued' = [updQueued EXCEPT ![n] = 0]
    /\ exitBy' = [exitBy EXCEPT ![n] = "none"]

\* newSearcher returns an error: no Searcher is made
NewSearcherErr(n) ==
    /\ tErr' = [tErr EXCEPT ![n] = TRUE]
    /\ Fault
    /\ UNCHANGED <<searcherVars, sdVars, srchVars, apiVars, indexers, limOf, inst, kept, stopping, obsVars>>

\* newSearcher: buildAndOpenIndex(idxDir). A directory that exists is opened,
\* one that does not is built and then opened; Build and Open can fail.
nsBuild(n) ==
    /\ tpc[n] = "build"
    /\ LET d == tDir[n]
           m == IF disk[d] = NoManifest
                   THEN [url |-> TaskRepo(n).url, rev |-> tRev[n]]
                   ELSE disk[d]
       IN  \/ /\ disk' = [disk EXCEPT ![d] = m]
              /\ NewSearcher(n, MkIdx(d, m.url, m.rev),
                             [TaskRepo(n) EXCEPT !.revision = tRev[n]], tRev[n])
              /\ UNCHANGED <<tErr, faults>>
           \/ /\ disk[d] = NoManifest
              /\ UNCHANGED disk
              /\ NewSearcherErr(n)
           \/ /\ disk' = [disk EXCEPT ![d] = m]
              /\ NewSearcherErr(n)
    /\ tpc' = [tpc EXCEPT ![n] = "post"]
    /\ UNCHANGED <<nextDir, lim, gSearchers, tRev, tDir, makeVars, confVars,
                   mpc, wpc, wname, reloads, cpc, cAtLock, cIdx>>

newSearcher(n) ==
    \/ nsPull(n)
    \/ nsBuild(n)

\* ---------------------------------------------------------------- MakeAll
NoTasks == [n \in Names |-> "none"]
NoRepos == [n \in Names |-> NoRepo]
NoRefs == [d \in Dirs |-> NoManifest]

\* MakeAll up to its collect loop: findExistingRefs, makeLimiter, and one
\* newSearcherConcurrent goroutine per configured repository
MakeAllStart ==
    /\ mpc = "start"
    /\ refs' = findExistingRefs
    /\ claimed' = {}
    /\ tpc' = [n \in Names |-> IF n \in InConfig(cfg) THEN "acquire" ELSE "none"]
    /\ mpc' = "collect"
    /\ UNCHANGED <<diskVars, searcherVars, lim, sdVars, srchVars, apiVars, indexers, limOf, inst, kept, gSearchers, tRev, tDir,
                   tErr, searchers, errs, begun, resultCh, confVars, wpc, wname,
                   reloads, callerVars, histVars>>

\* newSearcherConcurrent: lim.Acquire()
nscAcquire(n) ==
    /\ tpc[n] = "acquire"
    /\ Acquire(0)
    /\ tpc' = [tpc EXCEPT ![n] = "pull"]
    /\ UNCHANGED <<diskVars, searcherVars, sdVars, srchVars, apiVars, indexers, limOf, inst, kept, gSearchers, tRev, tDir, tErr,
                   makeVars, confVars, mpc, wpc, wname, reloads, callerVars,
                   histVars>>

\* newSearcherConcurrent: the send of the result on resultCh, which has room
\* for every repository, and the deferred lim.Release()
nscResult(n) ==
    /\ mpc = "collect"
    /\ tpc[n] = "post"
    /\ resultCh' = resultCh \cup {n}
    /\ Release(0)
    /\ tpc' = [tpc EXCEPT ![n] = "done"]
    /\ UNCHANGED <<diskVars, searcherVars, sdVars, srchVars, apiVars, indexers, limOf, inst, kept, gSearchers, tRev, tDir, tErr,
                   refs, claimed, searchers, errs, begun, confVars, mpc, wpc,
                   wname, reloads, callerVars, histVars>>

newSearcherConcurrent(n) ==
    \/ nscAcquire(n)
    \/ nscResult(n)

\* MakeAll: r := <-resultCh, entered in errs or in searchers; after
\* len(cfg.Repos) results the loop ends
MakeAllCollect ==
    /\ mpc = "collect"
    /\ \E n \in resultCh :
         /\ resultCh' = resultCh \ {n}
         /\ errs' = IF tErr[n] THEN errs \cup {n} ELSE errs
         /\ searchers' = IF tErr[n] THEN searchers ELSE searchers \cup {n}
         /\ mpc' = IF searchers' \cup errs' = InConfig(cfg) THEN "sweep" ELSE "collect"
    /\ UNCHANGED <<diskVars, searcherVars, lim, sdVars, srchVars, apiVars, indexers, limOf, inst, kept, gSearchers, taskVars,
                   refs, claimed, begun, confVars, wpc, wname, reloads,
                   callerVars, histVars>>

\* foundRefs.removeUnclaimed: every unclaimed ref is removed, in order; the
\* first Remove that fails ends MakeAll with a fatal error and main panics
removeUnclaimed ==
    /\ mpc = "sweep"
    /\ \/ /\ disk' = [d \in Dirs |-> IF d \in Unclaimed THEN NoManifest ELSE disk[d]]
          /\ mpc' = "begin"
          /\ UNCHANGED faults
       \/ \E f \in Unclaimed :
            /\ disk' = [d \in Dirs |-> IF d \in Unclaimed /\ d < f
                                          THEN NoManifest ELSE disk[d]]
            /\ mpc' = "fatal"
            /\ Fault
    /\ UNCHANGED <<nextDir, searcherVars, lim, sdVars, srchVars, apiVars, indexers, limOf, inst, kept, gSearchers, taskVars,
                   makeVars, confVars, wpc, wname, reloads, callerVars, obsVars>>

\* a MakeAll that calls begin on a searcher as soon as it has it
AnyMade == TRUE

\* every repository of the Make or MakeAll in progress has its result
AllMade ==
    \/ mpc = "begin"
    \/ wpc = "make" /\ InConfig(cfgn) = searchers \cup errs

\* Searcher.begin, called by Make and MakeAll for each searcher they made
begin(n) ==
    /\ AllMade
    /\ n \in searchers \ begun
    /\ updateCh[n] = 0
    /\ updateCh' = [updateCh EXCEPT ![n] = 1]
    /\ begun' = begun \cup {n}
    /\ UNCHANGED <<diskVars, loopVars, shutdownCh, shutdownRequested, doneCh,
                   lockVars, cycleVars, lim, sdVars, srchVars, apiVars, indexers, limOf, inst, kept, gSearchers, taskVars, refs,
                   claimed, searchers, errs, resultCh, confVars, mpc, wpc,
                   wname, reloads, callerVars, histVars>>

\* a makeAllSearchers that leaves the failed names in cfg.Repos
DropNone(c, e) == c

\* makeAllSearchers: delete(cfg.Repos, name) for every name in errs
DropFailed(c, e) == [n \in Names |-> IF n \in e THEN NoRepo ELSE c[n]]

\* MakeAll returns; makeAllSearchers deletes the failed names from cfg.Repos;
\* main starts the watcher and hands the map to the api package
makeAllSearchers ==
    /\ mpc = "begin"
    /\ begun = searchers
    /\ cfg' = DropFailed(cfg, errs)
    /\ gSearchers' = searchers
    /\ mpc' = "serve"
    /\ tpc' = NoTasks
    /\ tRev' = [n \in Names |-> 0]
    /\ tDir' = [n \in Names |-> 0]
    /\ tErr' = [n \in Names |-> FALSE]
    /\ refs' = NoRefs
    /\ claimed' = {}
    /\ searchers' = {}
    /\ begun' = {}
    /\ UNCHANGED errs
    /\ UNCHANGED <<diskVars, searcherVars, lim, sdVars, srchVars, apiVars, indexers, limOf, inst, kept, resultCh, file,
                   fileChanged, cfgn, deleted, wpc, wname, reloads, callerVars,
                   histVars>>

MakeAll ==
    \/ MakeAllStart
    \/ MakeAllCollect
    \/ removeUnclaimed

\* --------------------------------------------------- checkConfigChange
\* the descriptors a configuration file can give a repository
Descs == {MkRepo(u, TRUE, pu) : u \in Urls, pu \in BOOLEAN}
\* the descriptors of the start configuration: polled repositories
PollDescs == {MkRepo(u, TRUE, FALSE) : u \in Urls}
\* repositories that are not polled and take push updates
PushDesc == {MkRepo(1, FALSE, TRUE)}
\* one url, no polling, push updates enabled or not
ApiDescs == {MkRepo(1, FALSE, pu) : pu \in BOOLEAN}
PushDescs == {MkRepo(u, FALSE, TRUE) : u \in Urls}

UnchangedNone(f) == {n \in InConfig(cfg) : f[n] # f[n]}

\* the names of cfg.Repos to which the new file f gives an equal ToJsonString
Unchanged(f) ==
    {n \in InConfig(cfg) :
        f[n] # NoRepo /\ ToJsonString(cfg[n]) = ToJsonString(f[n])}

\* The operator has saved the configuration file with one repository's entry
\* added, removed or rewritten; scanChanges sees the newer mtime and runs the
\* callback, here up to GetSearchers: cfgn is loaded, the unchanged names
\* are taken out of cfgn, the removed and the changed ones go to deleted,
\* and cfg.Repos is brought up to the new file.
ReloadDiffOf(D, passes) ==
    /\ wpc = "scan"
    /\ mpc = "serve"
    /\ reloads < passes
    /\ \E n \in Names, d \in D \cup {NoRepo} :
         LET f == [file EXCEPT ![n] = d] IN
         /\ d # file[n]
         /\ file' = f
         /\ deleted' = InConfig(cfg) \ Unchanged(f)
         /\ cfgn' = [m \in Names |-> IF m \in Unchanged(f) THEN NoRepo ELSE f[m]]
         /\ cfg' = [m \in Names |-> IF m \in Unchanged(f) THEN cfg[m] ELSE f[m]]
         /\ kept' = {[name |-> m, inst |-> inst[m]] : m \in
                        {k \in gSearchers : /\ f[k] # NoRepo
                                            /\ f[k].url = repo[k].url
                                            /\ f[k].poll = repo[k].poll
                                            /\ f[k].push = repo[k].push}}
    /\ fileChanged' = TRUE
    /\ reloads' = reloads + 1
    /\ wpc' = "stop"
    /\ UNCHANGED <<diskVars, searcherVars, lim, sdVars, srchVars, apiVars, indexers, limOf, inst, gSearchers, taskVars,
                   makeVars, mpc, wname, callerVars, histVars>>

ReloadDiff == ReloadDiffOf(Descs, MaxReloads)

\* the callback's s.Stop() on a searcher of deleted, the select
ReloadStopSelect(n) ==
    /\ wpc = "stop"
    /\ n \in gSearchers \cap deleted
    /\ wname' = n
    /\ stopCalls' = [stopCalls EXCEPT ![n] = Sat2(@)]
    /\ IF shutdownCh[n] = 0
          THEN /\ shutdownCh' = [shutdownCh EXCEPT ![n] = 1]
               /\ wpc' = "stopflag"
          ELSE /\ wpc' = "wait"
               /\ UNCHANGED shutdownCh
    /\ UNCHANGED <<diskVars, loopVars, updateCh, shutdownRequested, doneCh,
                   lockVars, cycleVars, lim, sdVars, srchVars, apiVars, indexers, limOf, inst, kept, gSearchers, taskVars,
                   makeVars, confVars, mpc, reloads, callerVars, lastPull,
                   lastBuilt, lockWaited, updRet, updCalls, updQueued, exitBy,
                   faults>>

\* the callback's s.Stop(), the send's case body
ReloadStopSetFlag ==
    /\ wpc = "stopflag"
    /\ shutdownRequested' = [shutdownRequested EXCEPT ![wname] = TRUE]
    /\ wpc' = "wait"
    /\ UNCHANGED <<diskVars, loopVars, updateCh, shutdownCh, doneCh, lockVars,
                   cycleVars, lim, sdVars, srchVars, apiVars, indexers, limOf, inst, kept, gSearchers, taskVars, makeVars,
                   confVars, mpc, wname, reloads, callerVars, histVars>>

\* the callback's s.Wait() returns, and delete(searchers, name) drops the
\* last reference to the Searcher
ReloadWait ==
    /\ wpc = "wait"
    /\ WaitReturns(wname)
    /\ gSearchers' = gSearchers \ {wname}
    /\ NewSearcher(wname, NoIdx, NoRepo, 0)
    /\ wname' = 0
    /\ wpc' = "stop"
    /\ UNCHANGED <<diskVars, lim, taskVars, makeVars, confVars, mpc, reloads,
                   cpc, cAtLock, cIdx, faults>>

\* Make up to its loop: findExistingRefs and a limiter of its own
MakeStart ==
    /\ wpc = "stop"
    /\ gSearchers \cap deleted = {}
    /\ refs' = findExistingRefs
    /\ claimed' = {}
    /\ errs' = {}
    /\ wpc' = "make"
    /\ UNCHANGED <<diskVars, searcherVars, lim, sdVars, srchVars, apiVars, indexers, limOf, inst, kept, gSearchers, taskVars,
                   searchers, begun, resultCh, confVars, mpc, wname,
                   reloads, callerVars, histVars>>

\* Make: the next repository of cfgn.Repos, one newSearcher call at a time
MakeNext(n) ==
    /\ wpc = "make"
    /\ n \in InConfig(cfgn) \ (searchers \cup errs)
    /\ tpc = NoTasks
    /\ tpc' = [tpc EXCEPT ![n] = "pull"]
    /\ UNCHANGED <<diskVars, searcherVars, lim, sdVars, srchVars, apiVars, indexers, limOf, inst, kept, gSearchers, tRev, tDir,
                   tErr, makeVars, confVars, mpc, wpc, wname, reloads,
                   callerVars, histVars>>

\* Make: newSearcher's result is entered in errs or in searchers
MakeResult(n) ==
    /\ wpc = "make"
    /\ tpc[n] = "post"
    /\ errs' = IF tErr[n] THEN errs \cup {n} ELSE errs
    /\ searchers' = IF tErr[n] THEN searchers ELSE searchers \cup {n}
    /\ tpc' = [tpc EXCEPT ![n] = "none"]
    /\ tErr' = [tErr EXCEPT ![n] = FALSE]
    /\ tRev' = [tRev EXCEPT ![n] = 0]
    /\ tDir' = [tDir EXCEPT ![n] = 0]
    /\ UNCHANGED <<diskVars, searcherVars, lim, sdVars, srchVars, apiVars, indexers, limOf, inst, kept, gSearchers, refs,
                   claimed, begun, resultCh, confVars, mpc, wpc, wname,
                   reloads, callerVars, histVars>>

Make(n) ==
    \/ MakeNext(n)
    \/ MakeResult(n)

\* Make and makeSearchers return; the callback enters the new searchers in
\* the published map and scanChanges resets startTime
ReloadInsert ==
    /\ wpc = "make"
    /\ AllMade
    /\ begun = searchers
    /\ gSearchers' = gSearchers \cup searchers
    /\ fileChanged' = FALSE
    /\ wpc' = "scan"
    /\ cfgn' = NoRepos
    /\ deleted' = {}
    /\ refs' = NoRefs
    /\ claimed' = {}
    /\ searchers' = {}
    /\ begun' = {}
    /\ UNCHANGED errs
    /\ UNCHANGED <<diskVars, searcherVars, lim, sdVars, srchVars, apiVars, indexers, limOf, inst, kept, taskVars, resultCh,
                   file, cfg, mpc, wname, reloads, callerVars, histVars>>

\* the callback from GetSearchers on
ReloadPass ==
    \/ \E n \in Names : ReloadStopSelect(n)
    \/ ReloadStopSetFlag
    \/ ReloadWait
    \/ MakeStart
    \/ \E n \in Names : Make(n)
    \/ ReloadInsert

checkConfigChange ==
    \/ ReloadDiff
    \/ ReloadPass

\* ------------------------------------------------- POST /api/v1/update
Range(q) == {q[i] : i \in 1..Len(q)}

\* the orders in which a range over a Go map can produce the keys S
Orders(S) == {q \in [1..Cardinality(S) -> S] : Range(q) = S}

\* parseAsRepoList: v == "*" || v == ""
IsAll(v) == v = <<>> \/ v = <<Star>>

\* parseAsRepoList: the names of v with idx[repo] != nil, in order
Known(v) == SelectSeq(v, LAMBDA t : t \in gSearchers)

\* parseAsRepoList: the names of v with idx[repo] == nil
Unknown(v) == SelectSeq(v, LAMBDA t : t \notin gSearchers)

\* parseAsRepoList: the repos it can return for v. All keys of idx for "*"
\* or ""; otherwise the known names, followed, when some name was unknown, by
\* every key of idx whose searcher IsHidden
parseRepos(v) ==
    IF IsAll(v)
       THEN Orders(gSearchers)
       ELSE {Known(v) \o h :
                h \in IF Unknown(v) # <<>>
                         THEN Orders({n \in gSearchers : hidden[n]})
                         ELSE {<<>>}}

\* parseAsRepoList: the vrepos it returns for v, sorted
parseVRepos(v) ==
    IF IsAll(v) THEN <<>> ELSE SortSeq(Unknown(v), LAMBDA a, b : a < b)

\* the handler up to its loop: checkReady, the method is POST, and
\* parseAsRepoList(r.FormValue("repos"), gSearchers)
apiParse ==
    /\ apc = "idle"
    /\ mpc = "serve"
    /\ gSearchers # {}
    /\ \E v \in Requests :
         /\ areq' = v
         /\ arepos' \in parseRepos(v)
         /\ avrepos' = parseVRepos(v)
    /\ ai' = 0
    /\ apc' = "loop"
    /\ UNCHANGED <<diskVars, searcherVars, lim, sdVars, srchVars, hidden, vnames, astatus,
                   aupd, indexers, limOf, inst, kept, gSearchers, taskVars,
                   makeVars, confVars, mpc, wpc, wname, reloads, callerVars,
                   histVars>>

\* one turn of the handler's loop: gSearchers[repo] is nil (404), or
\* searcher.Update() returns false (403), or it returns true
apiUpdate ==
    /\ apc = "loop"
    /\ ai < Len(arepos)
    /\ ai' = ai + 1
    /\ LET n == arepos[ai + 1] IN
         IF n \notin gSearchers
            THEN /\ astatus' = 404
                 /\ apc' = "done"
                 /\ UNCHANGED <<aupd, updateCh, updCalls, updRet, updQueued>>
            ELSE /\ updCalls' = [updCalls EXCEPT ![n] = Sat2(@)]
                 /\ IF ~PushUpdatesEnabled(repo[n])
                       THEN /\ updRet' = [updRet EXCEPT ![n] = "false"]
                            /\ astatus' = 403
                            /\ apc' = "done"
                            /\ UNCHANGED <<aupd, updateCh, updQueued>>
                       ELSE /\ updRet' = [updRet EXCEPT ![n] = "true"]
                            /\ aupd' = aupd \cup {n}
                            /\ UNCHANGED <<astatus, apc>>
                            /\ IF updateCh[n] = 0
                                  THEN /\ updateCh' = [updateCh EXCEPT ![n] = 1]
                                       /\ updQueued' = [updQueued EXCEPT ![n] = @ + 1]
                                  ELSE UNCHANGED <<updateCh, updQueued>>
    /\ UNCHANGED <<diskVars, loopVars, shutdownCh, shutdownRequested, doneCh,
                   lockVars, cycleVars, lim, sdVars, srchVars, hidden, vnames, areq,
                   arepos, avrepos, indexers, limOf, inst, kept, gSearchers,
                   taskVars, makeVars, confVars, mpc, wpc, wname, reloads,
                   callerVars, lastPull, lastBuilt, lockWaited, stopCalls,
                   exitBy, faults>>

\* the loop has ended: writeResp(w, "ok")
apiOk ==
    /\ apc = "loop"
    /\ ai = Len(arepos)
    /\ astatus' = 200
    /\ apc' = "done"
    /\ UNCHANGED <<diskVars, searcherVars, lim, sdVars, srchVars, hidden, vnames, areq,
                   arepos, avrepos, ai, aupd, indexers, limOf, inst, kept,
                   gSearchers, taskVars, makeVars, confVars, mpc, wpc, wname,
                   reloads, callerVars, histVars>>

apiUpdateHandler ==
    \/ apiParse
    \/ apiUpdate
    \/ apiOk

\* --------------------------------------------------------- handleShutdown
\* ------------------------------------------------- the query fan-out
\* everything searchAll and its tasks leave alone
searchFrame == <<diskVars, searcherVars, lim, sdVars, apiVars, indexers,
                 limOf, inst, kept, gSearchers, taskVars, makeVars, confVars,
                 mpc, wpc, wname, reloads, callerVars, histVars>>

\* a results channel one slot short of the repos
OneShort == Len(qrepos) - 1

\* searchAll: n := len(repos); ch := make(chan *searchResponse, n)
ChanCap == Len(qrepos)

\* the search handler up to searchAll: checkReady, then
\* parseAsRepoList(r.FormValue("repos"), gSearchers), a query that is not empty
searchParse ==
    /\ qpc = "idle"
    /\ mpc = "serve"
    /\ gSearchers # {}
    /\ \E v \in Requests : qrepos' \in parseRepos(v)
    /\ qpc' = "launch"
    /\ UNCHANGED <<qi, qan, qgot, qch, qret, lpc, lerr, crashed, searchFrame>>

\* one turn of the launch loop: idx[repo] == nil is skipped, otherwise an++
\* and the task starts
searchLaunch ==
    /\ qpc = "launch"
    /\ qi < Len(qrepos)
    /\ qi' = qi + 1
    /\ IF qrepos[qi + 1] \in gSearchers
          THEN /\ qan' = qan + 1
               /\ lpc' = [lpc EXCEPT ![qi + 1] = "run"]
          ELSE UNCHANGED <<qan, lpc>>
    /\ UNCHANGED <<qpc, qrepos, qgot, qch, qret, lerr, crashed, searchFrame>>

\* the launch loop is over
searchLaunched ==
    /\ qpc = "launch"
    /\ qi = Len(qrepos)
    /\ qpc' = "collect"
    /\ UNCHANGED <<qrepos, qi, qan, qgot, qch, qret, lpc, lerr, crashed,
                   searchFrame>>

\* a task evaluates idx[repo].Search(query, opts, vrepos): the map is read
\* now. A nil *Searcher panics in s.lck.RLock(), and nothing recovers it;
\* otherwise Search returns under the read lock, with an error or without
searchTask(i) ==
    /\ lpc[i] = "run"
    /\ IF qrepos[i] \notin gSearchers
          THEN /\ lpc' = [lpc EXCEPT ![i] = "panicked"]
               /\ crashed' = TRUE
               /\ UNCHANGED lerr
          ELSE /\ RLockGranted(qrepos[i])
               /\ lpc' = [lpc EXCEPT ![i] = "send"]
               /\ \E e \in BOOLEAN : lerr' = [lerr EXCEPT ![i] = e]
               /\ UNCHANGED crashed
    /\ UNCHANGED <<qpc, qrepos, qi, qan, qgot, qch, qret, searchFrame>>

\* a task's ch <- &searchResponse{repo, fms, err}
searchSend(i) ==
    /\ lpc[i] = "send"
    /\ Len(qch) < ChanCap
    /\ qch' = Append(qch, [leg |-> i, err |-> lerr[i]])
    /\ lpc' = [lpc EXCEPT ![i] = "done"]
    /\ UNCHANGED <<qpc, qrepos, qi, qan, qgot, qret, lerr, crashed,
                   searchFrame>>

\* one turn of the collect loop: r := <-ch, and return nil, r.err on an error
searchCollect ==
    /\ qpc = "collect"
    /\ qgot < qan
    /\ qch # <<>>
    /\ qch' = Tail(qch)
    /\ IF Head(qch).err
          THEN /\ qpc' = "done"
               /\ qret' = "err"
               /\ UNCHANGED qgot
          ELSE /\ qgot' = qgot + 1
               /\ UNCHANGED <<qpc, qret>>
    /\ UNCHANGED <<qrepos, qi, qan, lpc, lerr, crashed, searchFrame>>

\* the collect loop is over: return res, nil
searchReturn ==
    /\ qpc = "collect"
    /\ qgot = qan
    /\ qpc' = "done"
    /\ qret' = "ok"
    /\ UNCHANGED <<qrepos, qi, qan, qgot, qch, lpc, lerr, crashed,
                   searchFrame>>

searchAll ==
    \/ searchParse
    \/ searchLaunch
    \/ searchLaunched
    \/ \E i \in Legs : searchTask(i)
    \/ \E i \in Legs : searchSend(i)
    \/ searchCollect
    \/ searchReturn

\* a SIGTERM arrives on the channel registerShutdownSignal made before
\* makeAllSearchers
Sigterm ==
    /\ ~sigterm
    /\ sigterm' = TRUE
    /\ UNCHANGED <<diskVars, searcherVars, lim, spc, hname, hInst, hAll, hDone,
                   mainVars, callerVars, histVars>>

\* s still is the Searcher the map had when the range produced it
SameObject == pc[hname] # "none" /\ inst[hname] = hInst

\* the entries a range over the map has yet to produce: those present when
\* it began; an entry inserted meanwhile may be produced or skipped
MustVisit == {n \in gSearchers : <<n, inst[n]>> \in hAll} \ hDone

\* handleShutdown's goroutine: <-shutdownCh, once main has called
\* handleShutdown after makeAllSearchers and checkConfigChange
hsReceive ==
    /\ spc = "idle"
    /\ mpc = "serve"
    /\ sigterm
    /\ spc' = "stop"
    /\ hAll' = {<<n, inst[n]>> : n \in gSearchers}
    /\ hDone' = {}
    /\ UNCHANGED <<diskVars, searcherVars, lim, sigterm, hname, hInst, mainVars,
                   callerVars, histVars>>

\* the first range over api.GetSearchers(): s.Stop(), the select
hsStopSelect(n) ==
    /\ spc = "stop"
    /\ n \in gSearchers \ hDone
    /\ hname' = n
    /\ hInst' = inst[n]
    /\ hDone' = hDone \cup {n}
    /\ stopCalls' = [stopCalls EXCEPT ![n] = Sat2(@)]
    /\ IF shutdownCh[n] = 0
          THEN /\ shutdownCh' = [shutdownCh EXCEPT ![n] = 1]
               /\ spc' = "stopflag"
          ELSE /\ spc' = "stop"
               /\ UNCHANGED shutdownCh
    /\ UNCHANGED <<diskVars, loopVars, updateCh, shutdownRequested, doneCh,
                   lockVars, cycleVars, lim, sigterm, hAll, mainVars,
                   callerVars, lastPull, lastBuilt, lockWaited, updRet,
                   updCalls, updQueued, exitBy, faults>>

\* s.Stop(), the send's case body
hsStopSetFlag ==
    /\ spc = "stopflag"
    /\ shutdownRequested' = IF SameObject
                                THEN [shutdownRequested EXCEPT ![hname] = TRUE]
                                ELSE shutdownRequested
    /\ spc' = "stop"
    /\ UNCHANGED <<diskVars, loopVars, updateCh, shutdownCh, doneCh, lockVars,
                   cycleVars, lim, sigterm, hname, hInst, hAll, hDone,
                   mainVars, callerVars, histVars>>

\* the first range ends and the second range over api.GetSearchers() begins
hsStopEnd ==
    /\ spc = "stop"
    /\ MustVisit = {}
    /\ spc' = "wait"
    /\ hAll' = {<<n, inst[n]>> : n \in gSearchers}
    /\ hDone' = {}
    /\ UNCHANGED <<diskVars, searcherVars, lim, sigterm, hname, hInst, mainVars,
                   callerVars, histVars>>

\* the second range: s.Wait() is called
hsWaitCall(n) ==
    /\ spc = "wait"
    /\ n \in gSearchers \ hDone
    /\ hname' = n
    /\ hInst' = inst[n]
    /\ hDone' = hDone \cup {n}
    /\ spc' = "waiting"
    /\ UNCHANGED <<diskVars, searcherVars, lim, sigterm, hAll, mainVars,
                   callerVars, histVars>>

\* s.Wait() returns: doneCh of that Searcher is closed
hsWaitReturn ==
    /\ spc = "waiting"
    /\ SameObject => WaitReturns(hname)
    /\ spc' = "wait"
    /\ UNCHANGED <<diskVars, searcherVars, lim, sigterm, hname, hInst, hAll,
                   hDone, mainVars, callerVars, histVars>>

\* os.Exit(0)
hsExit ==
    /\ spc = "wait"
    /\ MustVisit = {}
    /\ spc' = "exited"
    /\ UNCHANGED <<diskVars, searcherVars, lim, sigterm, hname, hInst, hAll,
                   hDone, mainVars, callerVars, histVars>>

handleShutdown ==
    \/ hsReceive
    \/ \E n \in Names : hsStopSelect(n)
    \/ hsStopSetFlag
    \/ hsStopEnd
    \/ \E n \in Names : hsWaitCall(n)
    \/ hsWaitReturn
    \/ hsExit

\* ------------------------------------------------------ the whole process
\* idx-* directories are listed in the order of their random names
ManifestLeq(a, b) == a.url < b.url \/ (a.url = b.url /\ a.rev <= b.rev)

\* main after cfg.LoadFromFile: some repository is configured, and dbpath
\* holds the idx-* directories an earlier run has left, at most found of them;
\* D are the descriptors the configuration file uses
InitMain(found, D, mci, f, hid) ==
    /\ \E k \in 0..found :
         \E mf \in [1..k -> [url : Urls, rev : Revs]] :
            /\ \A d \in 1..k, e \in 1..k : d < e => ManifestLeq(mf[d], mf[e])
            /\ disk = [d \in Dirs |-> IF d <= k THEN mf[d] ELSE NoManifest]
            /\ nextDir = k + 1
    /\ \E c \in [Names -> D \cup {NoRepo}] :
         /\ c[1] # NoRepo
         /\ c[1].url = 1
         /\ file = c
    /\ cfg = file
    /\ fileChanged = FALSE
    /\ pc = NoTasks
    /\ idx = [n \in Names |-> NoIdx]
    /\ repo = NoRepos
    /\ vrepos = [n \in Names |-> 0]
    /\ marked = [n \in Names |-> {}]
    /\ rev = [n \in Names |-> 0]
    /\ updateCh = [n \in Names |-> 0]
    /\ shutdownCh = [n \in Names |-> 0]
    /\ shutdownRequested = [n \in Names |-> FALSE]
    /\ doneCh = [n \in Names |-> 0]
    /\ readers = [n \in Names |-> {}]
    /\ writer = [n \in Names |-> FALSE]
    /\ newRev = [n \in Names |-> 0]
    /\ newIdx = [n \in Names |-> NoIdx]
    /\ oldIdx = [n \in Names |-> NoIdx]
    /\ swapErr = [n \in Names |-> FALSE]
    /\ lim = [l \in 0..MaxPasses |-> 0]
    /\ indexers = mci
    /\ hidden \in hid
    /\ \A n \in Names : hidden[n] => file[n] # NoRepo
    /\ vnames \in [Names -> SUBSET VNames]
    /\ \A n \in Names : ~hidden[n] => vnames[n] = {}
    /\ apc = "idle"
    /\ areq = <<>>
    /\ arepos = <<>>
    /\ avrepos = <<>>
    /\ ai = 0
    /\ astatus = 0
    /\ aupd = {}
    /\ qpc = "idle"
    /\ qrepos = <<>>
    /\ qi = 0
    /\ qan = 0
    /\ qgot = 0
    /\ qch = <<>>
    /\ qret = "none"
    /\ lpc = [i \in Legs |-> "none"]
    /\ lerr = [i \in Legs |-> FALSE]
    /\ crashed = FALSE
    /\ sigterm = FALSE
    /\ spc = "idle"
    /\ hname = 0
    /\ hInst = 0
    /\ hAll = {}
    /\ hDone = {}
    /\ limOf = [n \in Names |-> 0]
    /\ inst = [n \in Names |-> 0]
    /\ kept = {}
    /\ gSearchers = {}
    /\ cfgn = NoRepos
    /\ deleted = {}
    /\ refs = NoRefs
    /\ claimed = {}
    /\ tpc = NoTasks
    /\ tRev = [n \in Names |-> 0]
    /\ tDir = [n \in Names |-> 0]
    /\ tErr = [n \in Names |-> FALSE]
    /\ resultCh = {}
    /\ mpc = "start"
    /\ searchers = {}
    /\ errs = {}
    /\ begun = {}
    /\ wpc = "scan"
    /\ wname = 0
    /\ reloads = 0
    /\ cpc = [c \in Clients |-> "idle"]
    /\ cAtLock = [c \in Clients |-> NoIdx]
    /\ cIdx = [c \in Clients |-> NoIdx]
    /\ stopping = [n \in Names |-> 0]
    /\ lastPull = [n \in Names |-> 0]
    /\ lastBuilt = [n \in Names |-> 0]
    /\ lockWaited = [n \in Names |-> FALSE]
    /\ stopCalls = [n \in Names |-> 0]
    /\ updRet = [n \in Names |-> "none"]
    /\ updCalls = [n \in Names |-> 0]
    /\ updQueued = [n \in Names |-> 0]
    /\ exitBy = [n \in Names |-> "none"]
    /\ faults = f

\* a start over the directories of an earlier run
InitStart == InitMain(MaxFound, PollDescs, MaxConcurrentIndexers, 0, NoHidden)

\* Startup and the refresh goroutines it starts
NextStart ==
    \/ MakeAll
    \/ \E n \in Names : newSearcherConcurrent(n)
    \/ \E n \in Names : newSearcher(n)
    \/ \E n \in Names : begin(n)
    \/ makeAllSearchers
    \/ \E n \in Names : Loop(n)

SpecStart == InitStart /\ [][NextStart]_vars

\* the first start, dbpath empty
InitCoord == InitMain(0, PollDescs, MaxConcurrentIndexers, 0, NoHidden)

\* Startup, the refresh goroutines and the configuration hot reload
NextCoord ==
    \/ NextStart
    \/ checkConfigChange

SpecCoord == InitCoord /\ [][NextCoord]_vars

\* a first start of a configuration whose repositories are not polled
InitReload == InitMain(0, PushDescs, MaxConcurrentIndexers, 0, NoHidden)

\* Startup and hot-reload passes over repositories that are not polled: a
\* refresh goroutine wakes only when Stop signals it
NextReload ==
    \/ NextStart
    \/ ReloadDiffOf(PushDescs, MaxPasses)
    \/ ReloadPass

SpecReload == InitReload /\ [][NextReload]_vars

\* the first start under a configuration with "max-concurrent-indexers" : 1
InitSingle == InitMain(0, PollDescs, 1, 0, NoHidden)

SpecSingle == InitSingle /\ [][NextCoord]_vars

\* the Go scheduler runs every goroutine that can take a step: MakeAll and
\* the constructions it has started
StartFair ==
    /\ WF_vars(MakeAll)
    /\ \A n \in Names : WF_vars(newSearcherConcurrent(n)) /\ WF_vars(newSearcher(n))

\* Startup with one token, its goroutines scheduled fairly
SpecBoot == InitSingle /\ [][NextStart]_vars /\ StartFair

\* The process with a SIGTERM: startup, the refresh goroutines, the hot
\* reload and handleShutdown, until os.Exit
NextShutdown ==
    \/ NextStart
    \/ ReloadDiffOf(PushDesc, MaxReloads)
    \/ ReloadPass
    \/ Sigterm
    \/ handleShutdown

\* a first start with every repository on one url
InitShutdown == InitMain(0, PushDesc, MaxConcurrentIndexers, 0, NoHidden)

SpecShutdown == InitShutdown /\ [][NextShutdown]_vars

\* The process serving one search request: startup, the refresh goroutines,
\* the hot reload and searchAll with its tasks
NextSearch ==
    \/ NextStart
    \/ ReloadDiffOf(PushDesc, MaxReloads)
    \/ ReloadPass
    \/ searchAll

SpecSearch == InitShutdown /\ [][NextSearch]_vars

\* a first start of push-only and never-updated repositories, hidden or not
InitApi ==
    InitMain(0, ApiDescs, MaxConcurrentIndexers, 0, [Names -> BOOLEAN])

\* Startup, the refresh goroutines and one POST /api/v1/update
NextApi ==
    \/ NextStart
    \/ apiUpdateHandler

SpecApi == InitApi /\ [][NextApi]_vars

\* ------------------------------------------------------------ properties
InCycle(n) == pc[n] \in {"acquire", "pull", "build", "setrev", "swaplock",
                         "store", "destroy", "unlock", "cleanup", "release"}
InSwap(n) == pc[n] \in {"store", "destroy", "unlock"}
AtRest(n) == pc[n] \in {"held", "wait", "exited"}
Holding(c) == cpc[c] \in {"rlocked", "searching"}

\* C1: a Search that holds the shared lock runs on exactly one index, the one
\* that was live when RLock was granted, and the live index reference s.idx is
\* still that index for as long as the Search holds the lock.
C1_SearchSeesOneIndex ==
    \A c \in Clients :
        /\ Holding(c) => (c \in readers[1] /\ cAtLock[c] = idx[1])
        /\ cpc[c] = "searching" => cIdx[c] = cAtLock[c]

\* C1 witness: a Search runs on an index that an earlier swap made live while
\* the next swap has been requested and waits for it.
C1_Witness ==
    \E c \in Clients :
        /\ cpc[c] = "searching"
        /\ cIdx[c].dir # 1
        /\ pc[1] = "swaplock"
        /\ newIdx[1] # idx[1]

\* C2: swapIndexes stores the new index and destroys the previous one only
\* with the exclusive lock held and no Search holding the shared lock, so no
\* Search runs on the index swapIndexes destroys.
C2_SwapHoldsExclusiveLock ==
    InSwap(1) =>
        /\ writer[1]
        /\ readers[1] = {}
        /\ \A c \in Clients : ~Holding(c)

\* C2 witness: a swap that was requested while a Search was running has
\* destroyed the previous index, still under the lock.
C2_Witness ==
    /\ pc[1] = "unlock"
    /\ lockWaited[1]
    /\ ~swapErr[1]
    /\ ~Usable(oldIdx[1])
    /\ writer[1]

\* C3 as claimed: between refresh cycles the live index carries the url of
\* the repository and the revision of the last successful pull-or-clone.
C3_IndexIsLastPull ==
    AtRest(1) => (idx[1].url = repo[1].url /\ idx[1].rev = lastPull[1])

\* C3 amended: between refresh cycles the live index carries the url of the
\* repository and the revision of the last pull-or-clone whose index was
\* built and opened, which is the revision recorded in the descriptor.
C3_IndexIsLastBuilt ==
    AtRest(1) =>
        /\ idx[1].url = repo[1].url
        /\ idx[1].rev = lastBuilt[1]
        /\ repo[1].revision = lastBuilt[1]

\* C3 witness: after a swap made a rebuilt index live, a later pull reported
\* another revision whose build failed.
C3_Witness ==
    /\ pc[1] = "wait"
    /\ idx[1].dir # 1
    /\ lastPull[1] # idx[1].rev

\* C4: for a push-enabled searcher Update can always run and returns true,
\* the mailbox never holds more than one event, and the Update calls made
\* since the goroutine last woke have queued at most one event.
C4_UpdateCoalesces ==
    \A n \in gSearchers :
        PushUpdatesEnabled(repo[n]) =>
            /\ updateCh[n] <= 1
            /\ updQueued[n] <= 1
            /\ updRet[n] # "false"
            /\ ENABLED Update(n)

\* C4 witness: during one refresh cycle Update was called at least twice and
\* one event is queued.
C4_Witness ==
    /\ InCycle(1)
    /\ updCalls[1] = 2
    /\ updQueued[1] = 1
    /\ updateCh[1] = 1
    /\ updRet[1] = "true"

\* C5: Stop can always run, the shutdown channel never holds more than one
\* signal, and the completion signal is closed at most once: once exactly
\* when the goroutine has returned.
C5_StopIdempotent ==
    \A n \in gSearchers :
        /\ shutdownCh[n] <= 1
        /\ doneCh[n] <= 1
        /\ (pc[n] = "exited") <=> (doneCh[n] = 1)
        /\ stopping[n] < NumStoppers => ENABLED StopSelect(n)
        /\ stopping[n] > 0 => ENABLED StopSetFlag(n)

\* C5 witness: Stop was called more than once, one call after the goroutine
\* had returned, and its signal stays in the channel.
C5_Witness ==
    /\ stopCalls[1] = 2
    /\ pc[1] = "exited"
    /\ exitBy[1] = "shutdown"
    /\ shutdownCh[1] = 1
    /\ doneCh[1] = 1

\* C6: after a single Stop has returned, the goroutine is never parked in
\* waitForUpdate with nothing left to wake it (no queued update, no shutdown
\* signal, no poll timer), so it goes on to exit without a further Update or
\* Stop.
C6_StopLeadsToExit ==
    \A n \in gSearchers :
        (stopCalls[n] = 1 /\ stopping[n] = 0 /\ pc[n] = "wait") =>
            ENABLED waitForUpdate(n)

\* C7 as claimed: once the goroutine has returned because shutdown was
\* requested, the searcher holds no live index: it has been destroyed.
C7_ShutdownDestroysIndex ==
    \A n \in Names :
        (exitBy[n] = "shutdown" /\ doneCh[n] = 1) => ~Usable(idx[n])

\* C7 amended: the step that returns because shutdown was requested closes
\* the completion signal and destroys nothing: the searcher's index
\* reference and the index directories are left as they were.
C7_ShutdownKeepsIndex ==
    [][\A n \in Names :
          (pc[n] = "check" /\ pc'[n] = "exited") =>
              /\ idx'[n] = idx[n]
              /\ idx[n] # NoIdx
              /\ disk' = disk
              /\ doneCh'[n] = 1]_vars

\* C7 witness: the goroutine has returned on shutdown and the live index is
\* still open on its directory.
C7_Witness ==
    /\ exitBy[1] = "shutdown"
    /\ doneCh[1] = 1
    /\ Usable(idx[1])

\* the idx-* directories in dbpath, and those findExistingRefs has found
OnDisk == {d \in Dirs : disk[d] # NoManifest}
Found == {d \in Dirs : refs[d] # NoManifest}

\* C8: also when nothing fails, no two searchers of the published map
\* reference the same index directory, and the directory a published
\* searcher references has not been removed.
C8_ExclusiveIndexDirs ==
    faults = 0 =>
        /\ \A n \in gSearchers, m \in gSearchers :
              n # m => idx[n].dir # idx[m].dir
        /\ \A n \in gSearchers : Usable(idx[n])

\* C9: once startup and every hot-reload pass are over and no refresh cycle
\* is running, each idx-* directory on disk is the live index of some
\* searcher of the published map, also when nothing has failed.
C9_NoOrphanDirs ==
    (/\ faults = 0
     /\ mpc = "serve"
     /\ wpc = "scan"
     /\ \A n \in gSearchers : AtRest(n))
        => \A d \in OnDisk : \E n \in gSearchers : idx[n].dir = d

\* the found directories are those of an earlier run with this configuration
\* and these sources: one directory for each configured repository, with the
\* repository's url and the revision its pull has returned now
RestartUnchanged ==
    \E f \in [InConfig(cfg) -> Found] :
        /\ \A n \in InConfig(cfg), m \in InConfig(cfg) : n # m => f[n] # f[m]
        /\ \A d \in Found : \E n \in InConfig(cfg) : f[n] = d
        /\ \A n \in InConfig(cfg) :
              refs[f[n]] = [url |-> cfg[n].url, rev |-> rev[n]]

\* C10: when MakeAll has swept the unclaimed directories of a restart with
\* unchanged configuration and unchanged sources, in which nothing failed,
\* and before any searcher is sent begin, the idx-* directories on disk are
\* the ones that were found.
C10_RestartKeepsDirs ==
    (mpc = "begin" /\ begun = {} /\ faults = 0 /\ RestartUnchanged)
        => OnDisk = Found

C13_ConfigNamesAreMapNames ==
    (mpc = "serve" /\ wpc = "scan") => InConfig(cfg) = gSearchers

\* C12: when a hot-reload pass is over in which Make reported no error, the
\* names of the published map are the repository names of the configuration
\* file the pass has loaded.
C12_MapIsNewConfig ==
    (mpc = "serve" /\ wpc = "scan" /\ reloads >= 1 /\ errs = {})
        => gSearchers = InConfig(file)

\* C14: at every moment the number of index builds in progress in the whole
\* process (startup builds, refresh rebuilds and hot-reload builds together)
\* is at most max-concurrent-indexers.
C14_BuildsBounded ==
    Cardinality({n \in Names : pc[n] = "build"})
        + Cardinality({n \in Names : tpc[n] = "build"}) <= indexers

\* C15: MakeAll returns after one result from every configured repository;
\* each name is then in exactly one of the searcher map and the error map, a
\* name is in the error map only by its own failure, and after
\* makeAllSearchers the failed names are gone from the live configuration.
C15_StartupPartition ==
    /\ mpc \in {"sweep", "begin"} =>
          /\ resultCh = {}
          /\ \A n \in InConfig(cfg) : tpc[n] = "done" /\ (n \in errs <=> tErr[n])
          /\ searchers \cap errs = {}
          /\ searchers \cup errs = InConfig(cfg)
    /\ (mpc = "serve" /\ wpc = "scan" /\ reloads = 0) =>
          /\ gSearchers \cap errs = {}
          /\ gSearchers \cup errs = InConfig(file)
          /\ InConfig(cfg) = InConfig(file) \ errs

C15_Witness ==
    /\ mpc = "serve"
    /\ errs # {}
    /\ gSearchers # {}
    /\ InConfig(cfg) = gSearchers

\* C16: a refresh cycle whose pull fails or returns the current revision goes
\* from the pull straight to the end of updateAndReindex: it builds nothing,
\* swaps nothing, and leaves the disk, the live index, the loop's revision,
\* the descriptor and the virtual-repo map as they were; the loop then waits
\* for the next event. A cycle builds only on a new revision.
C16_IdleCycleChangesNothing ==
    [][\A n \in Names :
         /\ (pc[n] = "pull" /\ pc'[n] = "build") =>
               newRev'[n] \notin {PullErr, rev[n]}
         /\ (pc[n] = "pull" /\ pc'[n] \notin {"pull", "build"}) =>
               /\ pc'[n] = "release"
               /\ newRev'[n] = 0 /\ newIdx'[n] = NoIdx
               /\ disk' = disk /\ nextDir' = nextDir
               /\ idx'[n] = idx[n] /\ rev'[n] = rev[n]
               /\ repo'[n] = repo[n] /\ vrepos'[n] = vrepos[n]
         /\ (pc[n] = "release" /\ newRev[n] = 0 /\ pc'[n] # "release") =>
               /\ pc'[n] = "wait"
               /\ disk' = disk
               /\ idx'[n] = idx[n] /\ rev'[n] = rev[n]
               /\ repo'[n] = repo[n] /\ vrepos'[n] = vrepos[n]]_vars

\* a cycle that pulled the current revision has reached its end
C16_Witness ==
    \E n \in Names :
        /\ pc[n] = "release" /\ newRev[n] = 0 /\ faults = 0
        /\ lastPull[n] = rev[n] /\ lastBuilt[n] = rev[n]
        /\ idx[n] # NoIdx

\* C17: a refresh cycle whose buildAndOpenIndex fails leaves the live index
\* and the loop's revision unchanged, and the directory nextIndexDir allocated
\* for the failed build is not on disk afterwards.
C17_FailedBuildLeavesNothing ==
    [][\A n \in Names :
         (pc[n] = "build" /\ pc'[n] = "release") =>
             /\ idx'[n] = idx[n] /\ rev'[n] = rev[n] /\ newRev'[n] = 0
             /\ disk'[nextDir] = NoManifest]_vars

\* C18: the SIGTERM handler waits only on searchers Stop has been called on,
\* and when it calls os.Exit, Stop has been called on every searcher of the
\* live map and the refresh goroutine of each of them has terminated.
C18_ExitAfterAllStopped ==
    [][/\ (spc # "waiting" /\ spc' = "waiting") => stopCalls'[hname'] > 0
       /\ (spc # "exited" /\ spc' = "exited") =>
             \A n \in gSearchers : stopCalls[n] > 0 /\ pc[n] = "exited"]_vars

\* the names a request lists
Named == Range(areq)

\* the listed live repositories whose push updates are disabled
PushDisabled == {n \in Named \cap gSearchers : ~PushUpdatesEnabled(repo[n])}

\* C19: the response to POST /api/v1/update with a list of names: 403 when a
\* named repository has push updates disabled, and Update() then enqueued
\* nothing for it; otherwise 404 when a named repository is not in the live
\* map; otherwise "ok" with Update() called on exactly the named repositories.
C19_UpdateResponse ==
    (apc = "done" /\ ~IsAll(areq)) =>
        IF PushDisabled # {}
           THEN astatus = 403 /\ aupd \cap PushDisabled = {}
           ELSE IF ~(Named \subseteq gSearchers)
                   THEN astatus = 404
                   ELSE astatus = 200 /\ aupd = Named

\* C20: what parseAsRepoList selects. For "*" or the empty value: exactly the
\* live repositories that are not hidden. For a list: the listed names that
\* are live, the other listed names as virtual selectors, and of the hidden
\* repositories exactly those whose virtual set holds one of these selectors.
C20_RepositorySelection ==
    apc # "idle" =>
        IF IsAll(areq)
           THEN /\ Range(arepos) = {n \in gSearchers : ~hidden[n]}
                /\ avrepos = <<>>
           ELSE /\ Range(avrepos) = Named \ gSearchers
                /\ Range(arepos) =
                     (Named \cap gSearchers) \cup
                     {n \in gSearchers :
                         hidden[n] /\ vnames[n] \cap Range(avrepos) # {}}

\* C23: a refresh goroutine pulls, builds or swaps only after its begin
\* event, and during startup begin is called only when every construction
\* has reported its result and removeUnclaimed has removed the unclaimed
\* directories.
C23_BeginAfterSweep ==
    /\ \A n \in Names :
          /\ pc[n] \notin {"none", "held"} => (n \in begun \/ n \in gSearchers)
          /\ updateCh[n] = 1 => (n \in begun \/ n \in gSearchers)
    /\ (mpc # "serve" /\ begun # {}) =>
          /\ mpc = "begin"
          /\ resultCh = {}
          /\ \A n \in InConfig(cfg) : tpc[n] = "done"
          /\ searchers \cup errs = InConfig(cfg)
          /\ \A d \in Unclaimed : disk[d] = NoManifest

\* a goroutine is in a cycle after a startup that swept a directory
C23_Witness ==
    /\ mpc = "begin"
    /\ Unclaimed # {}
    /\ \E n \in begun : InCycle(n)

\* the constructions that hold a token of MakeAll's limiter
Constructing == {n \in Names : tpc[n] \in {"pull", "build", "post"}}

\* C24: during startup the constructions in progress are as many as the
\* tokens taken and at most max-concurrent-indexers; every construction that
\* waits for a token gets it, releases it and posts its result, and MakeAll
\* gets past its collect loop.
C24_StartupBounded ==
    /\ [](mpc = "collect" =>
            /\ Cardinality(Constructing) = lim[0]
            /\ Cardinality(Constructing) <= indexers)
    /\ \A n \in Names : (tpc[n] = "acquire") ~> (tpc[n] = "done")
    /\ (mpc = "collect") ~> (mpc \in {"begin", "fatal"})

\* the second construction has the only token after the first gave it back
C24_Witness ==
    /\ mpc = "collect"
    /\ indexers = 1
    /\ \E a \in Names, b \in Names :
          tpc[a] = "done" /\ tpc[b] \in {"pull", "build"} /\ lim[0] = 1

\* C25: the goroutine of a repository with neither poll nor push updates
\* does nothing but take the begin event, close doneCh and return: it never
\* pulls or builds, Wait returns once it has exited whether or not Stop was
\* called, and Stop and Update can always run and queue no update for it.
C25_NoUpdatesLoopExits ==
    \A n \in gSearchers :
        (~repo[n].poll /\ ~repo[n].push) =>
            /\ pc[n] \in {"held", "exited"}
            /\ (pc[n] = "held" /\ updateCh[n] = 1) => ENABLED LoopHeld(n)
            /\ pc[n] = "exited" =>
                  /\ WaitReturns(n) /\ doneCh[n] = 1
                  /\ exitBy[n] = "noupdates"
                  /\ updateCh[n] = 0
            /\ lastPull[n] = rev[n] /\ lastBuilt[n] = rev[n]
            /\ idx[n] = MkIdx(1, 1, 1) /\ nextDir = 2
            /\ updQueued[n] = 0 /\ updRet[n] # "true"
            /\ ENABLED Update(n)
            /\ stopping[n] < NumStoppers => ENABLED StopSelect(n)
            /\ stopping[n] > 0 => ENABLED StopSetFlag(n)

\* the goroutine has exited, and Stop and Update have been called and returned
C25_Witness ==
    /\ ~repo[1].poll /\ ~repo[1].push
    /\ pc[1] = "exited" /\ doneCh[1] = 1
    /\ stopCalls[1] > 0 /\ stopping[1] = 0
    /\ updRet[1] = "false"

\* C28: the live index of a searcher whose refresh goroutine has not
\* returned is an index whose directory exists, whatever the refresh cycles
\* did.
C28_LiveIndexOnDisk ==
    \A n \in Names :
        (pc[n] \notin {"none", "exited"} /\ idx[n] # NoIdx) => Usable(idx[n])

\* C27: the live index of a hidden repository has Hidden and FileRepo set,
\* after construction and after every refresh, and the virtual-repo map is
\* the one read from the tree of the descriptor's revision.
C27_HiddenIndexMarked ==
    \A n \in Names :
        (hidden[n] /\ idx[n] # NoIdx /\ pc[n] \in {"held", "wait"}) =>
            /\ idx[n].dir \in marked[n]
            /\ vrepos[n] = repo[n].revision

\* C21: a panic raised inside a fan-out search task never escapes the task:
\* wherever a task has panicked, the process is still running
C21_PanicContained ==
    \A i \in Legs : lpc[i] = "panicked" => ~crashed

\* C22: a request works on a snapshot of the searcher map: a task that was
\* launched for a repository and has yet to read the map finds that
\* repository's searcher in it, whatever the hot reload did in between
C22_LegFindsSearcher ==
    \A i \in Legs : lpc[i] = "run" => qrepos[i] \in gSearchers

\* the positions of repos whose task searchAll has launched
Launched == {i \in Legs : lpc[i] # "none"}

\* C26: a task's send on the results channel never blocks, whether the
\* dispatcher is collecting or has returned on the first error, and a
\* dispatcher that returns without an error has received exactly one result
\* from every task it launched
C26_SendsNeverBlock ==
    /\ \A i \in Legs : lpc[i] = "send" => ENABLED searchSend(i)
    /\ Len(qch) <= Len(qrepos)
    /\ qpc \in {"collect", "done"} => qan = Cardinality(Launched)
    /\ qret = "ok" =>
          /\ qgot = Cardinality(Launched)
          /\ \A i \in Launched : lpc[i] = "done" /\ ~lerr[i]
          /\ qch = <<>>
    /\ qret = "err" => \E i \in Launched : lpc[i] = "done" /\ lerr[i]

\* the dispatcher returned on the first error and a task sent afterwards; its
\* result stays in the channel
C26_Witness ==
    /\ qret = "err"
    /\ qan = 2
    /\ qch # <<>>
    /\ \A i \in Launched : lpc[i] = "done"

====
